---- MODULE Spec2Model ----
(***************************************************************************)
(* Model of the real-time CDC ingestion engine,                            *)
(* src/src/pipelines/cdc_realtime.py: CDCRealtimePipeline (message         *)
(* handler, flush policy, flush cycle, run loop and shutdown) and          *)
(* BigQueryCDCSink (table provisioning cache, batch write).                *)
(*                                                                         *)
(* Threads: the bus client invokes _handle_message on worker threads       *)
(* (Handlers); run() executes on the main thread (Main).  The code takes   *)
(* no lock, so every statement that touches self._buffer,                  *)
(* self._buffer_count, self._last_flush_time or self._total_processed is   *)
(* a step of its own and the steps of different threads interleave.        *)
(* A buffered row is identified by the id of the message it came from.     *)
(***************************************************************************)
EXTENDS Integers, Sequences, FiniteSets, TLC

\* ---------------------------------------------------------------- bounds
MaxMsgs == 2
NumHandlers == 2
MaxTime == 1
MaxRaises == 1
MaxRejects == 1
\* configuration of the run that is explored (CDCPipelineConfig fields)
batch_size == 2
flush_interval_sec == 1

\* ------------------------------------------------------------- universes
Main == 0
Handlers == 1..NumHandlers
Threads == 0..NumHandlers
Tables == {"orders", "products"}
BadJson == "bad_json"
Bodies == Tables \cup {BadJson}
MsgIds == 1..MaxMsgs
NoMsg == [id |-> 0, body |-> "none", idle |-> FALSE]
NoRef == [tbl |-> "none", live |-> FALSE, rows |-> <<>>]
NoIter == [used |-> 0, pos |-> 0]

VARIABLES
  buffer,            \* self._buffer: insertion-ordered dict, a sequence of [table, rows]
  buffer_count,      \* self._buffer_count
  last_flush_time,   \* self._last_flush_time
  running,           \* self._running
  total_processed,   \* self._total_processed
  table_schemas,     \* sink._table_schemas (set of tables recorded as existing)
  subscribed,        \* the streaming pull is delivering messages
  now,               \* time.time()
  pc,                \* position of every thread
  cur,               \* the message a handler thread is processing, and whether
                     \* it was delivered after an idle interval (kept until
                     \* the handler's flush decision)
  iter,              \* a flushing thread's iterator over self._buffer.items()
  rows_ref,          \* a flushing thread's `rows`: the list object it holds
  total_written,     \* a flushing thread's local total_written
  tmp,               \* a thread's loaded value in a read-modify-write
  trig,              \* what started a thread's flush: size, time or final
  msgs,              \* bodies of the messages delivered so far, by id
  acks,              \* message.ack() calls per message
  nacks,             \* message.nack() calls per message
  appended,          \* ids whose row has been appended to a buffer list
  sent,              \* per row, times it was passed to insert_rows_json
  sinkRaises,        \* sink calls that raised so far
  sinkRejects,       \* insert calls that returned row errors so far
  sizeFlushes,       \* completed write loops of size-triggered flush cycles
  append_seq,        \* the rows in the order in which they were appended
  rejected,          \* rows the sink has reported as rejected so far
  create_calls,      \* per table, the create_table calls made so far
  reported,          \* sum of the counts write_batch has returned so far
  inserted,          \* per row, insert_rows_json calls with it that returned
  \* one message taken through parsing and projection (CDCEvent):
  data,              \* message.data
  stage,             \* how far _handle_message has got with it
  event,             \* cdc_event
  row,               \* row
  pbuffer,           \* self._buffer of that run
  utcnow             \* datetime.utcnow() at the projection, in ms

parse_vars == <<data, stage, event, row, pbuffer, utcnow>>

engine_vars == <<buffer, buffer_count, last_flush_time, running, total_processed,
                 table_schemas, subscribed, now, pc, cur, iter, rows_ref,
                 total_written, tmp, trig, msgs, acks, nacks, appended, sent,
                 sinkRaises, sinkRejects, sizeFlushes, append_seq, rejected,
                 create_calls, reported, inserted>>

vars == <<engine_vars, parse_vars>>

\* ------------------------------------------------------- dict/list helpers
RECURSIVE IndexOf(_, _)
IndexOf(b, t) ==
  IF b = <<>> THEN 0
  ELSE IF b[Len(b)].table = t THEN Len(b) ELSE IndexOf(SubSeq(b, 1, Len(b) - 1), t)

HasKey(b, t) == IndexOf(b, t) > 0

RowsOf(b, t) == b[IndexOf(b, t)].rows

\* d[t] = rows: replaces the value of an existing key in place, else inserts last
SetItem(b, t, rows) ==
  IF HasKey(b, t)
  THEN [b EXCEPT ![IndexOf(b, t)] = [table |-> t, rows |-> rows]]
  ELSE Append(b, [table |-> t, rows |-> rows])

RECURSIVE TotalRows(_)
TotalRows(b) ==
  IF b = <<>> THEN 0 ELSE Len(b[1].rows) + TotalRows(Tail(b))

SeqSet(s) == {s[i] : i \in 1..Len(s)}

BufferedRows == UNION {SeqSet(buffer[i].rows) : i \in 1..Len(buffer)}

RECURSIVE SumOver(_, _)
SumOver(f, S) ==
  IF S = {} THEN 0
  ELSE LET x == CHOOSE y \in S : TRUE IN f[x] + SumOver(f, S \ {x})

\* the content of the list object a flushing thread holds
RefRows(th) ==
  IF rows_ref[th].live THEN RowsOf(buffer, rows_ref[th].tbl) ELSE rows_ref[th].rows

\* a list object leaves the dict (clear(), or its key is rebound): threads that
\* hold it keep the object with the content it has at that moment
Detach(refs, b, T) ==
  [th \in Threads |->
     IF refs[th].live /\ refs[th].tbl \in T
     THEN [tbl |-> refs[th].tbl, live |-> FALSE, rows |-> RowsOf(b, refs[th].tbl)]
     ELSE refs[th]]


\* ------------------------------------------------ CDCEvent: the envelope
\* A Python value of an image: an int, a str or None, with its str().
VInt == [t |-> "int", v |-> "1"]
VStr == [t |-> "str", v |-> "a"]
VNone == [t |-> "none", v |-> "None"]

\* A before/after image: a dict, as its (key, value) items in order.
Images ==
  { <<>>,
    << <<"id", VInt>> >>,
    << <<"id", VInt>>, <<"name", VStr>> >>,
    << <<"id", VInt>>, <<"name", VNone>> >> }

\* A key of the decoded envelope is absent (<<>>) or carries one value.  For
\* before and after the JSON value null is read through .get() as the same
\* None as an absent key; an op of null is a code outside the label table, as
\* "x" is.
Opt(S) == {<<>>} \cup {<<x>> : x \in S}

Payloads ==
  [source : Opt(Opt({"orders", "products"})),
   op : Opt({"c", "u", "d", "r", "x"}),
   ts_ms : Opt({0, 1500}),
   before : Opt(Images),
   after : Opt(Images)]

NoPayload == [source |-> <<>>, op |-> <<>>, ts_ms |-> <<>>, before |-> <<>>, after |-> <<>>]

\* message.data: bytes that are not JSON, JSON that is not an object (an array,
\* a number, null), or a JSON object
MessageBodies ==
  {[kind |-> k, payload |-> NoPayload] : k \in {"not_json", "not_object"}}
  \cup {[kind |-> "object", payload |-> p] : p \in Payloads}

NoBody == [kind |-> "none", payload |-> NoPayload]
NoEvent == [table_name |-> "", operation |-> "", before |-> <<>>, after |-> <<>>,
            timestamp_ms |-> 0]

\* datetime.utcnow() at the projection, in ms since the epoch
Clocks == {7000, 9250}

\* dict.get(key, default)
Get(field, default) == IF field = <<>> THEN default ELSE field[1]

\* variant: a record with neither image is refused by the parser
Raises_BothAbsent(b) ==
  b.kind # "object" \/ (b.payload.before = <<>> /\ b.payload.after = <<>>)

\* from_debezium raises (AttributeError on payload.get) when json.loads did not
\* return a dict; on a dict of the shapes above nothing raises
Raises(b) == b.kind # "object"

\* CDCEvent.from_debezium
FromDebezium(p) ==
  [table_name |-> Get(Get(p.source, <<>>), "unknown"),
   operation |-> Get(p.op, "?"),
   before |-> p.before,
   after |-> p.after,
   timestamp_ms |-> Get(p.ts_ms, 0)]

\* variant: the snapshot code is left out of the table
OperationLabel_NoSnapshot(op) ==
  CASE op = "c" -> "INSERT"
    [] op = "u" -> "UPDATE"
    [] op = "d" -> "DELETE"
    [] OTHER -> "UNKNOWN"

\* CDCEvent.operation_label
OperationLabel(op) ==
  CASE op = "c" -> "INSERT"
    [] op = "u" -> "UPDATE"
    [] op = "d" -> "DELETE"
    [] op = "r" -> "SNAPSHOT"
    [] OTHER -> "UNKNOWN"

\* ------------------------------------------ CDCEvent.to_bigquery_row
\* a column value: None, or a text (a sequence of tokens)
None == [null |-> TRUE, text |-> <<>>]
Text(t) == [null |-> FALSE, text |-> t]

\* Python truth of an optional dict: None and {} are both false
Truthy(opt) == opt # <<>> /\ opt[1] # <<>>

\* json.dumps of a value and of a dict
DumpsValue(x) ==
  IF x.t = "str" THEN <<"\"", x.v, "\"">>
  ELSE IF x.t = "none" THEN <<"null">>
  ELSE <<x.v>>

RECURSIVE DumpsItems(_)
DumpsItems(img) ==
  IF img = <<>> THEN <<>>
  ELSE <<"\"", img[1][1], "\"", ":">> \o DumpsValue(img[1][2])
       \o (IF Len(img) > 1 THEN <<",">> ELSE <<>>) \o DumpsItems(Tail(img))

Dumps(img) == <<"{">> \o DumpsItems(img) \o <<"}">>

\* datetime.utcfromtimestamp(ms / 1000).isoformat(): seconds and microseconds
IsoFormat(ms) == [sec |-> ms \div 1000, micro |-> (ms % 1000) * 1000]

\* json.dumps(self.before) if self.before else None   (and the same for after)
ImageData(opt) == IF Truthy(opt) THEN Text(Dumps(opt[1])) ELSE None

\* json.dumps(self.after or self.before or {})
RawPayload(ev) ==
  Text(Dumps(IF Truthy(ev.after) THEN ev.after[1]
             ELSE IF Truthy(ev.before) THEN ev.before[1]
             ELSE <<>>))

\* row[f"col_{key}"] = str(value) if value is not None else None
ColumnsOf(img) ==
  [i \in 1..Len(img) |->
     [key |-> img[i][1],
      value |-> IF img[i][2].t # "none" THEN Text(<<img[i][2].v>>) ELSE None]]

\* variant: the before image is flattened when there is no after image
Flatten_AnyImage(ev) ==
  IF Truthy(ev.after) THEN ColumnsOf(ev.after[1])
  ELSE IF Truthy(ev.before) THEN ColumnsOf(ev.before[1])
  ELSE <<>>

\* if self.after: for key, value in self.after.items(): ...
Flatten(ev) == IF Truthy(ev.after) THEN ColumnsOf(ev.after[1]) ELSE <<>>

ToBigqueryRow(ev, clock) ==
  [cdc_table |-> ev.table_name,
   cdc_operation |-> OperationLabel(ev.operation),
   cdc_timestamp |-> IsoFormat(ev.timestamp_ms),
   before_data |-> ImageData(ev.before),
   after_data |-> ImageData(ev.after),
   raw_payload |-> RawPayload(ev),
   ingested_at |-> IsoFormat(clock),
   cols |-> Flatten(ev)]

NoRow == ToBigqueryRow(NoEvent, 0)

\* ------------------- _handle_message on one message, no other thread
ParseIdle ==
  /\ data = NoBody
  /\ stage = "none"
  /\ event = NoEvent
  /\ row = NoRow
  /\ pbuffer = <<>>
  /\ utcnow = 0

\* ------------------------------------------------------------------ Init
\* CDCRealtimePipeline.__init__ and a fresh BigQueryCDCSink
EngineInit ==
  /\ buffer = <<>>
  /\ buffer_count = 0
  /\ last_flush_time = 0
  /\ running = TRUE
  /\ total_processed = 0
  /\ table_schemas = {}
  /\ subscribed = FALSE
  /\ now = 0
  /\ pc = [th \in Threads |-> IF th = Main THEN "subscribe" ELSE "idle"]
  /\ cur = [h \in Handlers |-> NoMsg]
  /\ iter = [th \in Threads |-> NoIter]
  /\ rows_ref = [th \in Threads |-> NoRef]
  /\ total_written = [th \in Threads |-> 0]
  /\ tmp = [th \in Threads |-> 0]
  /\ trig = [th \in Threads |-> "none"]
  /\ msgs = <<>>
  /\ acks = [i \in MsgIds |-> 0]
  /\ nacks = [i \in MsgIds |-> 0]
  /\ appended = {}
  /\ sent = [i \in MsgIds |-> 0]
  /\ sinkRaises = 0
  /\ sinkRejects = 0
  /\ sizeFlushes = 0
  /\ append_seq = <<>>
  /\ rejected = 0
  /\ create_calls = [t \in Tables |-> 0]
  /\ inserted = [i \in MsgIds |-> 0]
  /\ reported = 0

\* --------------------------------------------------------- flush policy
\* variant: the size bound taken as exclusive
ShouldFlush_Strict(count, t, last) ==
  IF count > batch_size THEN TRUE
  ELSE IF t - last >= flush_interval_sec THEN TRUE
  ELSE FALSE

\* _should_flush, on the values it reads
ShouldFlush(count, t, last) ==
  IF count >= batch_size THEN TRUE
  ELSE IF t - last >= flush_interval_sec THEN TRUE
  ELSE FALSE

\* which test of _should_flush answered
Trigger(count) == IF count >= batch_size THEN "size" ELSE "time"

\* ------------------------------------------- leaving a call, exceptions
\* Where a thread goes when its call returns (raised = FALSE) or an exception
\* leaves it (raised = TRUE):
\*   handler: `except Exception` of _handle_message nacks the message and the
\*            callback returns;
\*   main, periodic flush: `except Exception` of run() logs and falls into
\*            `finally`, i.e. the subscription is cancelled; a normal return
\*            goes back to `while self._running:`, which either sleeps and
\*            reaches `if self._should_flush():` again, or ends the loop into
\*            `finally` (time.sleep(1) touches no state; the clock is coarser
\*            than the sleep, so it may or may not advance meanwhile);
\*   main, final flush (inside `finally`): the exception leaves run().
LoopTest == IF running THEN "policy" ELSE "cancel"

LeavePc(th, raised) ==
  IF th = Main
  THEN IF trig[th] = "final"
       THEN IF raised THEN "crashed" ELSE "stopped"
       ELSE IF raised THEN "cancel" ELSE LoopTest
  ELSE "idle"

Leave(th, raised) ==
  /\ pc' = [pc EXCEPT ![th] = LeavePc(th, raised)]
  /\ cur' = IF th \in Handlers THEN [cur EXCEPT ![th] = NoMsg] ELSE cur
  /\ nacks' = IF th \in Handlers /\ raised
              THEN [nacks EXCEPT ![cur[th].id] = @ + 1] ELSE nacks
  /\ iter' = [iter EXCEPT ![th] = NoIter]
  /\ total_written' = [total_written EXCEPT ![th] = 0]
  /\ tmp' = [tmp EXCEPT ![th] = 0]
  /\ trig' = [trig EXCEPT ![th] = "none"]

\* variant: the malformed message is acknowledged instead
JsonDecodeError_Ack(i) ==
  /\ acks' = [acks EXCEPT ![i] = @ + 1]
  /\ UNCHANGED nacks

\* `except json.JSONDecodeError`: log, message.nack()
JsonDecodeError(i) ==
  /\ nacks' = [nacks EXCEPT ![i] = @ + 1]
  /\ UNCHANGED acks

\* variant: the reset of lines 278-280 done on the failure path too
FlushFailed_Reset(th) ==
  /\ Leave(th, TRUE)
  /\ buffer' = <<>>
  /\ buffer_count' = 0
  /\ last_flush_time' = now

\* an exception leaves _flush_all_buffers before lines 278-280 are reached:
\* the buffers, the count and the last-flush time stay as they are
FlushFailed(th) ==
  /\ Leave(th, TRUE)
  /\ UNCHANGED <<buffer, buffer_count, last_flush_time>>

\* ----------------------------------------------- _handle_message steps
\* Steps that touch only the thread's own message are taken together with the
\* next access to shared state; every access to self._buffer,
\* self._buffer_count and self._last_flush_time keeps a step of its own.

\* nothing is buffered, nothing was ever buffered, and the flush interval has
\* elapsed since the last-flush time
AfterIdle ==
  /\ buffer = <<>>
  /\ append_seq = <<>>
  /\ now - last_flush_time >= flush_interval_sec

\* The bus client delivers the next message to an idle worker thread (idle
\* workers are interchangeable: the lowest one takes it; table names are
\* interchangeable too: the first valid message is for "orders").  json.loads,
\* from_debezium, to_bigquery_row; JSONDecodeError -> nack and return;
\* otherwise `if table_name not in self._buffer:` is evaluated.
H_Receive(h) ==
  /\ pc[h] = "idle"
  /\ \A g \in Handlers : g < h => pc[g] # "idle"
  /\ subscribed
  /\ Len(msgs) < MaxMsgs
  /\ \E body \in Bodies :
       /\ body = "products" => \E i \in 1..Len(msgs) : msgs[i] = "orders"
       /\ msgs' = Append(msgs, body)
       /\ IF body = BadJson
          THEN /\ JsonDecodeError(Len(msgs) + 1)
               /\ UNCHANGED <<pc, cur>>
          ELSE /\ cur' = [cur EXCEPT ![h] = [id |-> Len(msgs) + 1, body |-> body,
                                                idle |-> AfterIdle]]
               /\ pc' = [pc EXCEPT ![h] = IF HasKey(buffer, body) THEN "append" ELSE "mklist"]
               /\ UNCHANGED <<nacks, acks>>
  /\ UNCHANGED <<buffer, buffer_count, last_flush_time, running, total_processed,
                 table_schemas, subscribed, now, iter, rows_ref,
                 total_written, tmp, trig, appended, sent,
                 sinkRaises, sinkRejects, sizeFlushes>>
  /\ UNCHANGED <<parse_vars, append_seq, rejected, create_calls, reported, inserted>>

\*     self._buffer[table_name] = []
H_MkList(h) ==
  /\ pc[h] = "mklist"
  /\ buffer' = SetItem(buffer, cur[h].body, <<>>)
  /\ rows_ref' = IF HasKey(buffer, cur[h].body)
                 THEN Detach(rows_ref, buffer, {cur[h].body}) ELSE rows_ref
  /\ pc' = [pc EXCEPT ![h] = "append"]
  /\ UNCHANGED <<buffer_count, last_flush_time, running, total_processed,
                 table_schemas, subscribed, now, cur, iter,
                 total_written, tmp, trig, msgs, acks, nacks, appended, sent,
                 sinkRaises, sinkRejects, sizeFlushes>>
  /\ UNCHANGED <<parse_vars, append_seq, rejected, create_calls, reported, inserted>>

\* self._buffer[table_name].append(row)  (KeyError when the key is gone:
\* `except Exception` nacks), then the load of `self._buffer_count += 1`
H_Append(h) ==
  /\ pc[h] = "append"
  /\ IF HasKey(buffer, cur[h].body)
     THEN /\ buffer' = SetItem(buffer, cur[h].body,
                               Append(RowsOf(buffer, cur[h].body), cur[h].id))
          /\ appended' = appended \cup {cur[h].id}
          /\ append_seq' = Append(append_seq, cur[h].id)
          /\ tmp' = [tmp EXCEPT ![h] = buffer_count]
          /\ pc' = [pc EXCEPT ![h] = "count_wr"]
          /\ UNCHANGED <<cur, nacks, iter, total_written, trig>>
     ELSE /\ Leave(h, TRUE)
          /\ UNCHANGED <<buffer, appended, append_seq>>
  /\ UNCHANGED <<buffer_count, last_flush_time, running, total_processed,
                 table_schemas, subscribed, now, rows_ref, msgs, acks,
                 sent, sinkRaises, sinkRejects, sizeFlushes>>
  /\ UNCHANGED <<parse_vars, rejected, create_calls, reported, inserted>>

\* variant: the count is stored but the acknowledgment is left for later
H_Ack_Deferred(h) ==
  /\ pc[h] = "count_wr"
  /\ buffer_count' = tmp[h] + 1
  /\ tmp' = [tmp EXCEPT ![h] = 0]
  /\ pc' = [pc EXCEPT ![h] = "policy"]
  /\ UNCHANGED <<buffer, last_flush_time, running, total_processed,
                 table_schemas, subscribed, now, cur, iter, rows_ref,
                 total_written, trig, msgs, acks, nacks, appended, sent,
                 sinkRaises, sinkRejects, sizeFlushes>>
  /\ UNCHANGED <<parse_vars, append_seq, rejected, create_calls, reported, inserted>>

\* the store of `self._buffer_count += 1`, then message.ack()
H_Ack(h) ==
  /\ pc[h] = "count_wr"
  /\ buffer_count' = tmp[h] + 1
  /\ tmp' = [tmp EXCEPT ![h] = 0]
  /\ acks' = [acks EXCEPT ![cur[h].id] = @ + 1]
  /\ pc' = [pc EXCEPT ![h] = "policy"]
  /\ UNCHANGED <<buffer, last_flush_time, running, total_processed,
                 table_schemas, subscribed, now, cur, iter, rows_ref,
                 total_written, trig, msgs, nacks, appended, sent,
                 sinkRaises, sinkRejects, sizeFlushes>>
  /\ UNCHANGED <<parse_vars, append_seq, rejected, create_calls, reported, inserted>>

\* if self._should_flush(): self._flush_all_buffers()   (handler and run loop)
Policy(th) ==
  /\ pc[th] = "policy"
  /\ IF ShouldFlush(buffer_count, now, last_flush_time)
     THEN /\ pc' = [pc EXCEPT ![th] = "flush_begin"]
          /\ trig' = [trig EXCEPT ![th] = Trigger(buffer_count)]
          /\ cur' = IF th \in Handlers THEN [cur EXCEPT ![th].idle = FALSE] ELSE cur
          /\ UNCHANGED <<nacks, iter, total_written, tmp>>
     ELSE Leave(th, FALSE)
  /\ UNCHANGED <<buffer, buffer_count, last_flush_time, running, total_processed,
                 table_schemas, subscribed, now, rows_ref, msgs, acks,
                 appended, sent, sinkRaises, sinkRejects, sizeFlushes>>
  /\ UNCHANGED <<parse_vars, append_seq, rejected, create_calls, reported, inserted>>


\* --------------------------------------------- _flush_all_buffers steps
\* `if not self._buffer: return`: nothing is written and nothing is reset
EmptyReturn(th) ==
  /\ Leave(th, FALSE)
  /\ UNCHANGED last_flush_time

\* if not self._buffer: return;  total_written = 0;  iter(self._buffer.items())
FlushBegin(th) ==
  /\ pc[th] = "flush_begin"
  /\ IF buffer = <<>>
     THEN EmptyReturn(th)
     ELSE /\ iter' = [iter EXCEPT ![th] = [used |-> Len(buffer), pos |-> 0]]
          /\ total_written' = [total_written EXCEPT ![th] = 0]
          /\ pc' = [pc EXCEPT ![th] = "flush_next"]
          /\ UNCHANGED <<cur, nacks, tmp, trig, last_flush_time>>
  /\ UNCHANGED <<buffer, buffer_count, running, total_processed,
                 table_schemas, subscribed, now, rows_ref, msgs, acks,
                 appended, sent, sinkRaises, sinkRejects, sizeFlushes>>
  /\ UNCHANGED <<parse_vars, append_seq, rejected, create_calls, reported, inserted>>

\* for table_name, rows in self._buffer.items():  one advance of the iterator.
\* The dict iterator raises RuntimeError when the dict's size differs from the
\* size at its creation, ends when its position is past the entries, and
\* otherwise yields the entry at its position.  When the loop ends the load of
\* `self._total_processed += total_written` follows.
FlushNext(th) ==
  /\ pc[th] = "flush_next"
  /\ IF Len(buffer) # iter[th].used
     THEN /\ FlushFailed(th)
          /\ UNCHANGED <<rows_ref, sizeFlushes>>
     ELSE IF iter[th].pos >= Len(buffer)
     THEN /\ pc' = [pc EXCEPT ![th] = "clear"]
          /\ iter' = [iter EXCEPT ![th] = NoIter]
          /\ tmp' = [tmp EXCEPT ![th] = total_processed]
          /\ sizeFlushes' = IF trig[th] = "size" THEN sizeFlushes + 1 ELSE sizeFlushes
          /\ UNCHANGED <<cur, nacks, total_written, trig, rows_ref,
                         buffer, buffer_count, last_flush_time>>
     ELSE /\ rows_ref' = [rows_ref EXCEPT ![th] =
                 [tbl |-> buffer[iter[th].pos + 1].table, live |-> TRUE, rows |-> <<>>]]
          /\ iter' = [iter EXCEPT ![th].pos = @ + 1]
          /\ pc' = [pc EXCEPT ![th] = "wb_ensure"]
          /\ UNCHANGED <<cur, nacks, total_written, tmp, trig, sizeFlushes,
                         buffer, buffer_count, last_flush_time>>
  /\ UNCHANGED <<running, total_processed,
                 table_schemas, subscribed, now, msgs, acks, appended,
                 sent, sinkRaises, sinkRejects>>
  /\ UNCHANGED <<parse_vars, append_seq, rejected, create_calls, reported, inserted>>

\* variant: the table is recorded before create_table is called
CreateFailed_Recorded(t) == table_schemas' = table_schemas \cup {t}

\* create_table raised: `except Exception: log; raise`, nothing is recorded
CreateFailed(t) == table_schemas' = table_schemas

\* write_batch: `if not rows: return 0`, then ensure_table_exists: a table in
\* _table_schemas is not provisioned again; otherwise create_table either
\* succeeds (the table is recorded) or raises (nothing recorded, the error
\* leaves write_batch and the flush)
WB_Ensure(th) ==
  /\ pc[th] = "wb_ensure"
  /\ IF RefRows(th) = <<>>
     THEN /\ pc' = [pc EXCEPT ![th] = "flush_next"]
          /\ rows_ref' = [rows_ref EXCEPT ![th] = NoRef]
          /\ UNCHANGED <<table_schemas, create_calls, sinkRaises, cur, nacks, iter,
                         total_written, tmp, trig,
                         buffer, buffer_count, last_flush_time>>
     ELSE IF rows_ref[th].tbl \in table_schemas
     THEN /\ pc' = [pc EXCEPT ![th] = "wb_insert"]
          /\ UNCHANGED <<table_schemas, create_calls, sinkRaises, rows_ref, cur, nacks,
                         iter, total_written, tmp, trig,
                         buffer, buffer_count, last_flush_time>>
     ELSE /\ create_calls' = [create_calls EXCEPT ![rows_ref[th].tbl] = @ + 1]
          /\ \/ /\ table_schemas' = table_schemas \cup {rows_ref[th].tbl}
                /\ pc' = [pc EXCEPT ![th] = "wb_insert"]
                /\ UNCHANGED <<sinkRaises, rows_ref, cur, nacks, iter,
                               total_written, tmp, trig,
                               buffer, buffer_count, last_flush_time>>
             \/ /\ sinkRaises < MaxRaises
                /\ sinkRaises' = sinkRaises + 1
                /\ rows_ref' = [rows_ref EXCEPT ![th] = NoRef]
                /\ FlushFailed(th)
                /\ CreateFailed(rows_ref[th].tbl)
  /\ UNCHANGED <<running, total_processed,
                 subscribed, now, msgs, acks, appended, sent,
                 sinkRejects, sizeFlushes>>
  /\ UNCHANGED <<parse_vars, append_seq, rejected, reported, inserted>>

\* every row of the list is passed to insert_rows_json once more
Handed(rows) == [i \in MsgIds |-> IF i \in SeqSet(rows) THEN sent[i] + 1 ELSE sent[i]]

\* every row of the list was in an insert_rows_json call that returned
Returned(rows) ==
  [i \in MsgIds |-> IF i \in SeqSet(rows) THEN inserted[i] + 1 ELSE inserted[i]]

\* variant: the row errors are logged but not subtracted
Written_All(rows, errors) == Len(rows)

\* what write_batch returns after insert_rows_json gave `errors` row errors
Written(rows, errors) == IF errors > 0 THEN Len(rows) - errors ELSE Len(rows)

\* errors = insert_rows_json(table_id, rows): no errors -> len(rows);
\* k row errors -> len(rows) - k, no exception; or the call raises
WB_Insert(th) ==
  /\ pc[th] = "wb_insert"
  /\ sent' = Handed(RefRows(th))
  /\ rows_ref' = [rows_ref EXCEPT ![th] = NoRef]
  /\ \/ /\ total_written' = [total_written EXCEPT ![th] = @ + Written(RefRows(th), 0)]
        /\ reported' = reported + Written(RefRows(th), 0)
        /\ inserted' = Returned(RefRows(th))
        /\ pc' = [pc EXCEPT ![th] = "flush_next"]
        /\ UNCHANGED <<sinkRaises, sinkRejects, rejected, cur, nacks, iter, tmp, trig,
                       buffer, buffer_count, last_flush_time>>
     \/ /\ sinkRejects < MaxRejects
        /\ \E k \in 1..Len(RefRows(th)) :
             /\ total_written' = [total_written EXCEPT ![th] = @ + Written(RefRows(th), k)]
             /\ rejected' = rejected + k
             /\ reported' = reported + Written(RefRows(th), k)
        /\ sinkRejects' = sinkRejects + 1
        /\ inserted' = Returned(RefRows(th))
        /\ pc' = [pc EXCEPT ![th] = "flush_next"]
        /\ UNCHANGED <<sinkRaises, cur, nacks, iter, tmp, trig,
                       buffer, buffer_count, last_flush_time>>
     \/ /\ sinkRaises < MaxRaises
        /\ sinkRaises' = sinkRaises + 1
        /\ FlushFailed(th)
        /\ UNCHANGED <<sinkRejects, rejected, reported, inserted>>
  /\ UNCHANGED <<running, total_processed,
                 table_schemas, subscribed, now, msgs, acks, appended,
                 sizeFlushes>>
  /\ UNCHANGED <<parse_vars, append_seq, create_calls>>

\* the store of `self._total_processed += total_written`, then
\* self._buffer.clear()
Clear(th) ==
  /\ pc[th] = "clear"
  /\ total_processed' = tmp[th] + total_written[th]
  /\ tmp' = [tmp EXCEPT ![th] = 0]
  /\ total_written' = [total_written EXCEPT ![th] = 0]
  /\ buffer' = <<>>
  /\ rows_ref' = Detach(rows_ref, buffer, Tables)
  /\ pc' = [pc EXCEPT ![th] = "reset_count"]
  /\ UNCHANGED <<buffer_count, last_flush_time, running,
                 table_schemas, subscribed, now, cur, iter,
                 trig, msgs, acks, nacks, appended, sent,
                 sinkRaises, sinkRejects, sizeFlushes>>
  /\ UNCHANGED <<parse_vars, append_seq, rejected, create_calls, reported, inserted>>

\* self._buffer_count = 0
ResetCount(th) ==
  /\ pc[th] = "reset_count"
  /\ buffer_count' = 0
  /\ pc' = [pc EXCEPT ![th] = "set_time"]
  /\ UNCHANGED <<buffer, last_flush_time, running, total_processed,
                 table_schemas, subscribed, now, cur, iter, rows_ref,
                 total_written, tmp, trig, msgs, acks, nacks, appended, sent,
                 sinkRaises, sinkRejects, sizeFlushes>>
  /\ UNCHANGED <<parse_vars, append_seq, rejected, create_calls, reported, inserted>>

\* self._last_flush_time = time.time(); the call returns
SetTime(th) ==
  /\ pc[th] = "set_time"
  /\ last_flush_time' = now
  /\ Leave(th, FALSE)
  /\ UNCHANGED <<buffer, buffer_count, running, total_processed,
                 table_schemas, subscribed, now, rows_ref, msgs, acks,
                 appended, sent, sinkRaises, sinkRejects, sizeFlushes>>
  /\ UNCHANGED <<parse_vars, append_seq, rejected, create_calls, reported, inserted>>

\* ------------------------------------------------------------ run() steps
\* variant: the subscribe call sits inside the try, a failure falls into finally
M_Subscribe_InTry ==
  /\ pc[Main] = "subscribe"
  /\ \/ /\ subscribed' = TRUE
        /\ pc' = [pc EXCEPT ![Main] = LoopTest]
     \/ /\ pc' = [pc EXCEPT ![Main] = "cancel"]
        /\ UNCHANGED subscribed
  /\ UNCHANGED <<buffer, buffer_count, last_flush_time, running, total_processed,
                 table_schemas, now, cur, iter, rows_ref,
                 total_written, tmp, trig, msgs, acks, nacks, appended, sent,
                 sinkRaises, sinkRejects, sizeFlushes>>
  /\ UNCHANGED <<parse_vars, append_seq, rejected, create_calls, reported, inserted>>

\* self.subscriber.subscribe(...): outside the try, a failure leaves run()
M_Subscribe ==
  /\ pc[Main] = "subscribe"
  /\ \/ /\ subscribed' = TRUE
        /\ pc' = [pc EXCEPT ![Main] = LoopTest]
     \/ /\ pc' = [pc EXCEPT ![Main] = "start_failed"]
        /\ UNCHANGED subscribed
  /\ UNCHANGED <<buffer, buffer_count, last_flush_time, running, total_processed,
                 table_schemas, now, cur, iter, rows_ref,
                 total_written, tmp, trig, msgs, acks, nacks, appended, sent,
                 sinkRaises, sinkRejects, sizeFlushes>>
  /\ UNCHANGED <<parse_vars, append_seq, rejected, create_calls, reported, inserted>>

\* variant: the streaming pull is left delivering
M_Cancel_Skipped ==
  /\ pc[Main] = "cancel"
  /\ pc' = [pc EXCEPT ![Main] = "await"]
  /\ UNCHANGED <<buffer, buffer_count, last_flush_time, running, total_processed,
                 table_schemas, subscribed, now, cur, iter, rows_ref,
                 total_written, tmp, trig, msgs, acks, nacks, appended, sent,
                 sinkRaises, sinkRejects, sizeFlushes>>
  /\ UNCHANGED <<parse_vars, append_seq, rejected, create_calls, reported, inserted>>

\* finally: streaming_pull_future.cancel()
M_Cancel ==
  /\ pc[Main] = "cancel"
  /\ subscribed' = FALSE
  /\ pc' = [pc EXCEPT ![Main] = "await"]
  /\ UNCHANGED <<buffer, buffer_count, last_flush_time, running, total_processed,
                 table_schemas, now, cur, iter, rows_ref,
                 total_written, tmp, trig, msgs, acks, nacks, appended, sent,
                 sinkRaises, sinkRejects, sizeFlushes>>
  /\ UNCHANGED <<parse_vars, append_seq, rejected, create_calls, reported, inserted>>

\* variant: the cancellation is not waited for
CancellationNotAwaited == TRUE

\* streaming_pull_future.result()  # Wait for cancellation
\* returns once no callback is executing; then self._flush_all_buffers() starts

CancellationDone == \A h \in Handlers : pc[h] = "idle"

M_Await ==
  /\ pc[Main] = "await"
  /\ CancellationDone
  /\ pc' = [pc EXCEPT ![Main] = "flush_begin"]
  /\ trig' = [trig EXCEPT ![Main] = "final"]
  /\ UNCHANGED <<buffer, buffer_count, last_flush_time, running, total_processed,
                 table_schemas, subscribed, now, cur, iter, rows_ref,
                 total_written, tmp, msgs, acks, nacks, appended, sent,
                 sinkRaises, sinkRejects, sizeFlushes>>
  /\ UNCHANGED <<parse_vars, append_seq, rejected, create_calls, reported, inserted>>

\* SIGTERM / SIGINT: _shutdown sets self._running = False
Signal ==
  /\ running
  /\ pc[Main] \notin {"stopped", "crashed", "start_failed"}
  /\ running' = FALSE
  /\ UNCHANGED <<buffer, buffer_count, last_flush_time, total_processed,
                 table_schemas, subscribed, now, pc, cur, iter, rows_ref,
                 total_written, tmp, trig, msgs, acks, nacks, appended, sent,
                 sinkRaises, sinkRejects, sizeFlushes>>
  /\ UNCHANGED <<parse_vars, append_seq, rejected, create_calls, reported, inserted>>

\* the clock advances
Tick ==
  /\ now < MaxTime
  /\ now' = now + 1
  /\ UNCHANGED <<buffer, buffer_count, last_flush_time, running, total_processed,
                 table_schemas, subscribed, pc, cur, iter, rows_ref,
                 total_written, tmp, trig, msgs, acks, nacks, appended, sent,
                 sinkRaises, sinkRejects, sizeFlushes>>
  /\ UNCHANGED <<parse_vars, append_seq, rejected, create_calls, reported, inserted>>

\* ------------------------------------------------------------------ Next
Next ==
  \/ \E h \in Handlers : H_Receive(h)
  \/ \E h \in Handlers : H_MkList(h)
  \/ \E h \in Handlers : H_Append(h)
  \/ \E h \in Handlers : H_Ack(h)
  \/ \E th \in Threads : Policy(th)
  \/ \E th \in Threads : FlushBegin(th)
  \/ \E th \in Threads : FlushNext(th)
  \/ \E th \in Threads : WB_Ensure(th)
  \/ \E th \in Threads : WB_Insert(th)
  \/ \E th \in Threads : Clear(th)
  \/ \E th \in Threads : ResetCount(th)
  \/ \E th \in Threads : SetTime(th)
  \/ M_Subscribe
  \/ M_Cancel
  \/ M_Await
  \/ Signal
  \/ Tick

\* the engine's behaviours; the single-message run below stays idle
Init == EngineInit /\ ParseIdle

Spec == Init /\ [][Next]_vars

\* The same engine with the bus client running its callback on one thread:
\* a message is delivered only when the previous callback has returned, so
\* only the first worker is ever used (the run loop still has its own thread).
SingleThreads == {Main, 1}

SingleNext ==
  \/ H_Receive(1)
  \/ H_MkList(1)
  \/ H_Append(1)
  \/ H_Ack(1)
  \/ \E th \in SingleThreads : Policy(th)
  \/ \E th \in SingleThreads : FlushBegin(th)
  \/ \E th \in SingleThreads : FlushNext(th)
  \/ \E th \in SingleThreads : WB_Ensure(th)
  \/ \E th \in SingleThreads : WB_Insert(th)
  \/ \E th \in SingleThreads : Clear(th)
  \/ \E th \in SingleThreads : ResetCount(th)
  \/ \E th \in SingleThreads : SetTime(th)
  \/ M_Subscribe
  \/ M_Cancel
  \/ M_Await
  \/ Signal
  \/ Tick

SingleSpec == Init /\ [][SingleNext]_vars

\* ------------------------------------------------------------------------
\* One message taken through _handle_message with no other thread running:
\* which bodies are rejected, what the parsed record and the projected row are.
ParseInit ==
  /\ EngineInit
  /\ data \in MessageBodies
  /\ stage = "received"
  /\ event = NoEvent
  /\ row = NoRow
  /\ pbuffer = <<>>
  /\ utcnow \in Clocks

\* payload = json.loads(message.data.decode("utf-8"));
\* except json.JSONDecodeError: message.nack()
P_Loads ==
  /\ stage = "received"
  /\ stage' = IF data.kind = "not_json" THEN "nack_json" ELSE "loaded"
  /\ UNCHANGED <<engine_vars, data, event, row, pbuffer, utcnow>>

\* cdc_event = CDCEvent.from_debezium(payload);
\* except Exception: message.nack()
P_FromDebezium ==
  /\ stage = "loaded"
  /\ IF Raises(data)
     THEN /\ stage' = "nack_error"
          /\ UNCHANGED event
     ELSE /\ stage' = "parsed"
          /\ event' = FromDebezium(data.payload)
  /\ UNCHANGED <<engine_vars, data, row, pbuffer, utcnow>>

\* row = cdc_event.to_bigquery_row(); table_name = cdc_event.table_name
P_ToBigqueryRow ==
  /\ stage = "parsed"
  /\ row' = ToBigqueryRow(event, utcnow)
  /\ stage' = "projected"
  /\ UNCHANGED <<engine_vars, data, event, pbuffer, utcnow>>

\* if table_name not in self._buffer: self._buffer[table_name] = []
\* self._buffer[table_name].append(row); self._buffer_count += 1; message.ack()
P_Append ==
  /\ stage = "projected"
  /\ pbuffer' = SetItem(pbuffer, event.table_name,
                        Append(IF HasKey(pbuffer, event.table_name)
                               THEN RowsOf(pbuffer, event.table_name) ELSE <<>>, row))
  /\ stage' = "acked"
  /\ UNCHANGED <<engine_vars, data, event, row, utcnow>>

ParseNext ==
  \/ P_Loads
  \/ P_FromDebezium
  \/ P_ToBigqueryRow
  \/ P_Append

ParseSpec == ParseInit /\ [][ParseNext]_vars


\* ---------------------------------------------------- derived notions
FlushPcs == {"flush_begin", "flush_next", "wb_ensure", "wb_insert",
             "clear", "reset_count", "set_time"}

\* the lifecycle state of the engine, from where run() is
Phase ==
  CASE pc[Main] = "subscribe" -> "Starting"
    [] pc[Main] = "policy" -> "Running"
    [] pc[Main] \in FlushPcs -> IF trig[Main] = "final" THEN "Draining" ELSE "Running"
    [] pc[Main] \in {"cancel", "await"} -> "Draining"
    [] pc[Main] = "stopped" -> "Stopped"
    [] OTHER -> "Failed"

\* no thread is inside _handle_message or _flush_all_buffers
Quiescent == \A th \in Threads : pc[th] \notin (FlushPcs \cup {"mklist", "append", "count_wr"})
                                  /\ (th \in Handlers => pc[th] = "idle")

Handled(i) == i <= Len(msgs) /\ \A h \in Handlers : cur[h].id # i

SinkAccepts == sinkRaises = 0 /\ sinkRejects = 0

\* ------------------------------------------------------------------ C1
\* C1: appends concurrent with flushes lose and duplicate no row: whenever no
\* handler and no flush is in progress (and no sink call has raised), the rows
\* handed to the sink over all flushes plus the rows still buffered are as many
\* as the rows appended.
C1_NoRowLostOrDuplicated ==
  (Quiescent /\ sinkRaises = 0) =>
     SumOver(sent, MsgIds) + TotalRows(buffer) = Cardinality(appended)


\* ------------------------------------------------------------------ C2
\* C2 (as stated): every message whose body is not valid JSON is acknowledged
\* (ack, not nack) and contributes no row.
C2_MalformedAcked ==
  \A i \in 1..Len(msgs) :
     msgs[i] = BadJson => acks[i] = 1 /\ nacks[i] = 0 /\ i \notin appended

\* C2 (amended): every message whose body is not valid JSON is negatively
\* acknowledged exactly once and never acknowledged, contributes no row, and
\* handling it leaves the buffers and the buffered-row count unchanged; after a
\* malformed message followed by a valid one, only the valid one can have a row,
\* and the valid one is acknowledged exactly when its row was appended.
C2_MalformedNacked ==
  /\ [](\A i \in 1..Len(msgs) :
          msgs[i] = BadJson =>
             acks[i] = 0 /\ nacks[i] = 1 /\ i \notin appended /\ i \notin BufferedRows)
  /\ []((Len(msgs) = 2 /\ msgs[1] = BadJson /\ msgs[2] # BadJson /\ Handled(2)) =>
          (appended \subseteq {2} /\ (acks[2] = 1 <=> 2 \in appended) /\ acks[2] <= 1))
  /\ [][(Len(msgs') > Len(msgs) /\ msgs'[Len(msgs')] = BadJson) =>
          (buffer' = buffer /\ buffer_count' = buffer_count /\ appended' = appended)]_vars

C2_Witness ==
  /\ Len(msgs) = 2 /\ msgs[1] = BadJson /\ msgs[2] # BadJson /\ Handled(2)
  /\ nacks[1] = 1 /\ acks[1] = 0
  /\ appended = {2} /\ acks[2] = 1
  /\ TotalRows(buffer) = 1

\* ------------------------------------------------------------------ C3
\* C3: for a parsed message the row is appended first, then the message is
\* acknowledged, and only then is the flush policy evaluated: a handler that is
\* at the policy or inside the flush it started has already acknowledged, no
\* message is acknowledged before its row is appended, and a message whose row
\* was appended ends acknowledged whatever the sink did with the row.
C3_AppendAckThenPolicy ==
  /\ \A h \in Handlers :
       /\ pc[h] \in {"mklist", "append"} =>
             cur[h].id \notin appended /\ acks[cur[h].id] = 0
       /\ pc[h] = "count_wr" => cur[h].id \in appended /\ acks[cur[h].id] = 0
       /\ pc[h] \in ({"policy"} \cup FlushPcs) =>
             cur[h].id \in appended /\ acks[cur[h].id] = 1
  /\ \A i \in MsgIds : acks[i] >= 1 => i \in appended
  /\ \A i \in MsgIds : (Handled(i) /\ i \in appended) => acks[i] = 1

\* a row acknowledged before the sink write its own handler is about to issue,
\* and that write is going to be the first the sink sees of it
C3_Witness ==
  \E h \in Handlers :
     /\ pc[h] = "wb_insert"
     /\ acks[cur[h].id] = 1
     /\ sent[cur[h].id] = 0
     /\ cur[h].id \in SeqSet(RefRows(h))

\* ------------------------------------------------------------------ C4
\* C4: a sink call that raises, in a flush started by the handler or by the
\* periodic loop, leaves the engine Running.
C4_SinkFailureKeepsRunning ==
  [][(sinkRaises' > sinkRaises /\ Phase = "Running") => Phase' = "Running"]_vars

\* ------------------------------------------------------------------ C5
\* C5 (as stated): after a sink call raised, the rows of that flush are no
\* longer buffered: the buffers and the buffered-row count are reset.
C5_FailedFlushResets ==
  [][sinkRaises' > sinkRaises => (buffer' = <<>> /\ buffer_count' = 0)]_vars

\* C5 (amended): a flush cycle in which a sink call raises does not clear or
\* reset anything: the buffers, the buffered-row count and the last-flush time
\* are exactly as they were when the call raised, so the rows of that flush stay
\* buffered (and are handed to the sink again by the next flush).
C5_FailedFlushKeepsRows ==
  [][sinkRaises' > sinkRaises =>
       (buffer' = buffer /\ buffer_count' = buffer_count
        /\ last_flush_time' = last_flush_time)]_vars

\* a row handed to the sink by a flush that failed, handed again by a later one
C5_Witness ==
  /\ sinkRaises = 1
  /\ \E i \in MsgIds : sent[i] = 2
  /\ Len(msgs) = 1

\* ------------------------------------------------------------------ C6
\* C6: after the shutdown signal the engine reaches Stopped even when the final
\* write fails: run() never ends with the sink's error.
C6_FinalFailureStillStops == pc[Main] # "crashed"

\* ------------------------------------------------------------------ C7
\* C7: the subscription is cancelled and the cancellation awaited before the
\* final flush starts: from then on no handler is active, nothing is appended,
\* and when the final flush has gone through the buffers every buffered row has
\* been handed to the sink.
FinalFlushStarted ==
  \/ pc[Main] \in FlushPcs /\ trig[Main] = "final"
  \/ pc[Main] \in {"stopped", "crashed"}

C8_ShouldFlushIff ==
  [][\A th \in Threads :
        (pc[th] = "policy" /\ pc'[th] # "policy") =>
           (pc'[th] = "flush_begin" <=>
              (buffer_count >= batch_size
               \/ now - last_flush_time >= flush_interval_sec))]_vars

\* the policy has just answered true at count = batch_size with the interval
\* not yet elapsed
C8_Witness ==
  \E th \in Threads :
     /\ pc[th] = "flush_begin" /\ trig[th] = "size"
     /\ buffer_count = batch_size
     /\ now - last_flush_time < flush_interval_sec

\* ------------------------------------------------------------------ C9
\* C9: with a sink that accepts every write, every appended row is eventually
\* handed to the sink; so no appended row may ever be neither buffered, nor
\* handed to the sink, nor held by a flush that is still to write it.
C9_NoRowStarved ==
  SinkAccepts =>
     \A i \in appended :
        \/ i \in BufferedRows
        \/ sent[i] >= 1
        \/ \E th \in Threads : ~rows_ref[th].live /\ i \in SeqSet(rows_ref[th].rows)

\* ----------------------------------------------------------------- C10
\* C10: N valid messages for one table, delivered within less than one flush
\* interval to a Running engine whose sink accepts every write, have caused
\* exactly N div batch_size size-triggered flushes of batch_size rows each and
\* left N mod batch_size rows buffered for the time-based trigger.
C10_SizeTriggeredBatches ==
  (/\ SinkAccepts /\ Quiescent /\ Phase = "Running" /\ running
   /\ now < flush_interval_sec
   /\ \A i \in 1..Len(msgs) : msgs[i] = "orders") =>
     /\ sizeFlushes = Len(msgs) \div batch_size
     /\ SumOver(sent, MsgIds) = batch_size * sizeFlushes
     /\ TotalRows(buffer) = Len(msgs) % batch_size

\* ----------------------------------------------------------------- C11
\* C11: the lifecycle only moves forward through Starting, Running, Draining,
\* Stopped: no step takes the engine to an earlier state, once it has left
\* Running it never returns to Running, and Stopped is terminal: the
\* subscription is cancelled, no handler is active, and no step delivers or
\* handles a message, acknowledges one, or issues a sink call.
PhaseRank ==
  CASE Phase = "Starting" -> 0
    [] Phase = "Running" -> 1
    [] Phase = "Draining" -> 2
    [] OTHER -> 3

Projected == stage \in {"projected", "acked"}
Finished == stage \in {"acked", "nack_json", "nack_error"}
BothAbsent == data.kind = "object" /\ data.payload.before = <<>> /\ data.payload.after = <<>>

\* ----------------------------------------------------------------- C12
\* C12: a message is rejected (not buffered) only when its body is not valid
\* JSON: every body that is valid JSON ends with exactly one buffered row and
\* an acknowledged message.
C12_OnlyNonJsonRejected ==
  (Finished /\ data.kind # "not_json") =>
     (stage = "acked" /\ TotalRows(pbuffer) = 1)

\* ----------------------------------------------------------------- C13
\* C13 (as stated): a record with neither a before nor an after image is
\* rejected: no row of it is ever projected or buffered.
C13_BothAbsentRejected ==
  BothAbsent => (~Projected /\ pbuffer = <<>>)

\* C13 (amended): a record with neither image is not a parse failure: it is
\* never rejected, and its row (before and after columns null, raw payload the
\* empty object, no flattened column) is buffered under its table name.
C13_BothAbsentRetained ==
  BothAbsent =>
     /\ stage \notin {"nack_json", "nack_error"}
     /\ Projected =>
          /\ row.before_data = None /\ row.after_data = None
          /\ row.raw_payload = Text(<<"{", "}">>)
          /\ row.cols = <<>>
     /\ stage = "acked" =>
          pbuffer = << [table |-> event.table_name, rows |-> <<row>>] >>

C13_Witness ==
  /\ BothAbsent /\ stage = "acked"
  /\ TotalRows(pbuffer) = 1
  /\ data.payload.op = <<"u">>

\* ----------------------------------------------------------------- C14
\* C14: the raw payload column is never null: it is the serialization of the
\* after image when that is present (also when it has no keys), else of the
\* before image when that is present, else of the empty object.
C14_RawPayloadOfPresentImage ==
  Projected =>
     /\ ~row.raw_payload.null
     /\ row.raw_payload.text =
          Dumps(IF event.after # <<>> THEN event.after[1]
                ELSE IF event.before # <<>> THEN event.before[1]
                ELSE <<>>)

\* ----------------------------------------------------------------- C15
\* C15: a record whose ts_ms is 0 or absent is buffered with the ingestion
\* time of the projection as its event time, not the epoch.
C15_ZeroTimestampIsIngestTime ==
  (Projected /\ Get(data.payload.ts_ms, 0) = 0) =>
     (row.cdc_timestamp = IsoFormat(utcnow) /\ row.cdc_timestamp # IsoFormat(0))

\* ----------------------------------------------------------------- C16
\* C16: the op code maps to the label as a total function: c INSERT, u UPDATE,
\* d DELETE, r SNAPSHOT, any other or missing code UNKNOWN; the parsed record
\* carries source.table (or "unknown"), before and after of the envelope.
C16_OperationLabelTotal ==
  (stage \in {"parsed", "projected", "acked"}) =>
     LET p == data.payload
         label == OperationLabel(event.operation)
     IN /\ p.op = <<"c">> => label = "INSERT"
        /\ p.op = <<"u">> => label = "UPDATE"
        /\ p.op = <<"d">> => label = "DELETE"
        /\ p.op = <<"r">> => label = "SNAPSHOT"
        /\ p.op \notin {<<"c">>, <<"u">>, <<"d">>, <<"r">>} => label = "UNKNOWN"
        /\ p.op # <<>> => event.operation = p.op[1]
        /\ \A t \in {"orders", "products"} :
              p.source = << <<t>> >> => event.table_name = t
        /\ p.source \in {<<>>, << <<>> >>} => event.table_name = "unknown"
        /\ event.before = p.before /\ event.after = p.after
        /\ Projected => row.cdc_operation = label

C16_Witness ==
  /\ stage = "projected"
  /\ data.payload.op = <<"r">> /\ row.cdc_operation = "SNAPSHOT"
  /\ data.payload.source = << <<"products">> >> /\ event.table_name = "products"
  /\ data.payload.before = <<>> /\ data.payload.after # <<>>

\* ----------------------------------------------------------------- C17
\* C17 (as stated): one col_<key> column per top-level key of the after image,
\* each holding the value stringified, none when the after image is absent;
\* the audit columns carry the table name and the operation label.
C17_ColumnsStringified ==
  Projected =>
     /\ row.cdc_table = event.table_name
     /\ row.cdc_operation = OperationLabel(event.operation)
     /\ IF event.after = <<>> THEN row.cols = <<>>
        ELSE /\ Len(row.cols) = Len(event.after[1])
             /\ \A i \in 1..Len(row.cols) :
                  /\ row.cols[i].key = event.after[1][i][1]
                  /\ row.cols[i].value = Text(<<event.after[1][i][2].v>>)

\* C17 (amended): one col_<key> column per top-level key of the after image,
\* holding the value stringified, or null when the value is null; no col_ column
\* when the after image is absent; the audit columns carry the table name and
\* the operation label.
C17_ColumnsStringifiedOrNull ==
  Projected =>
     /\ row.cdc_table = event.table_name
     /\ row.cdc_operation = OperationLabel(event.operation)
     /\ IF event.after = <<>> THEN row.cols = <<>>
        ELSE /\ Len(row.cols) = Len(event.after[1])
             /\ \A i, j \in 1..Len(row.cols) :
                  i # j => row.cols[i].key # row.cols[j].key
             /\ \A i \in 1..Len(row.cols) :
                  /\ row.cols[i].key = event.after[1][i][1]
                  /\ row.cols[i].value =
                       IF event.after[1][i][2] = VNone THEN None
                       ELSE Text(<<event.after[1][i][2].v>>)

\* an after image with a null-valued key, projected
C17_Witness ==
  /\ Projected
  /\ Len(row.cols) = 2
  /\ row.cols[1].value = Text(<<"1">>)
  /\ row.cols[2].value = None
  /\ data.payload.before # <<>>

\* ----------------------------------------------------------------- C18
\* C18: when the sink rejects some rows of a batch, write_batch does not raise
\* and does not retry: the batch was handed to the sink once, the count it
\* returns is the batch size minus the number of rejected rows, nothing is put
\* back into the buffers, the flush cycle goes on to the next table, the engine
\* stays in its lifecycle state; and the clear at the end of that cycle empties
\* the buffers, rejected rows included.
C18_PartialFailureContinues ==
  /\ [][\A th \in Threads :
          (pc[th] = "wb_insert" /\ ~(pc'[th] = "wb_insert") /\ sinkRejects' > sinkRejects) =>
             /\ pc'[th] = "flush_next"
             /\ sinkRaises' = sinkRaises /\ nacks' = nacks
             /\ rejected' > rejected
             /\ total_written'[th] =
                  total_written[th] + Len(RefRows(th)) - (rejected' - rejected)
             /\ sent' = Handed(RefRows(th))
             /\ buffer' = buffer /\ buffer_count' = buffer_count
             /\ Phase' = Phase]_vars
  /\ [][\A th \in Threads :
          (pc[th] = "clear" /\ pc'[th] = "reset_count") => buffer' = <<>>]_vars

\* the periodic flush of a Running engine got a partial failure on the first
\* of two tables and is about to go on to the second
C18_Witness ==
  /\ pc[Main] = "flush_next" /\ Phase = "Running"
  /\ rejected = 1 /\ sinkRaises = 0
  /\ Len(buffer) = 2 /\ iter[Main].pos = 1
  /\ total_written[Main] = Len(buffer[1].rows) - 1

\* ----------------------------------------------------------------- C19
\* C19: for each table, rows reach the sink in the order they were appended,
\* under any interleaving: a row is never handed to the sink while a row of
\* the same table that was appended before it has not been handed yet.
AppendedBefore(i, j) ==
  \E a, b \in 1..Len(append_seq) :
     a < b /\ append_seq[a] = i /\ append_seq[b] = j

C19_SinkOrderIsAppendOrder ==
  \A i, j \in appended :
     (msgs[i] = msgs[j] /\ AppendedBefore(i, j) /\ sent[j] >= 1) => sent[i] >= 1

\* ----------------------------------------------------------------- C20
\* C20: at most one flush cycle is in progress: while one thread's flush is
\* writing to the sink, no other thread is inside _flush_all_buffers.
C20_OneFlushInProgress ==
  \A a, b \in Threads :
     (a # b /\ pc[a] \in {"wb_ensure", "wb_insert"}) => pc[b] \notin FlushPcs

\* ----------------------------------------------------------------- C22
\* C22: when subscribing fails, run() ends there: the step out of the subscribe
\* call either has the subscription established or is the fatal exit; at the
\* fatal exit the engine was never Running, no message was delivered or
\* handled, no flush (not even the final one) ran and no sink call was made;
\* and nothing follows it (no retry).
C22_SubscribeFailureFatal ==
  /\ [][(pc[Main] = "subscribe" /\ ~(pc'[Main] = "subscribe")) =>
          (subscribed' \/ pc'[Main] = "start_failed")]_vars
  /\ [](pc[Main] = "start_failed" =>
          /\ ~subscribed /\ msgs = <<>> /\ buffer = <<>>
          /\ SumOver(sent, MsgIds) = 0 /\ total_processed = 0
          /\ table_schemas = {} /\ SumOver(create_calls, Tables) = 0
          /\ \A th \in Threads : pc[th] \notin FlushPcs
          /\ \A h \in Handlers : pc[h] = "idle")
  /\ [][pc[Main] = "start_failed" =>
          (pc'[Main] = "start_failed" /\ msgs' = msgs /\ subscribed' = subscribed)]_vars

\* the failed start, with time gone by and nothing having happened
C22_Witness ==
  /\ pc[Main] = "start_failed"
  /\ now = MaxTime
  /\ running

\* ----------------------------------------------------------------- C23
\* C23: a flush cycle that runs to completion leaves, at its return, the
\* buffers empty, the buffered-row count 0 and the last-flush time equal to
\* the time of its completion.
C23_CompletedCycleLeavesEmpty ==
  [][\A th \in Threads :
       (pc[th] = "set_time" /\ pc'[th] # "set_time") =>
          (buffer' = <<>> /\ buffer_count' = 0 /\ last_flush_time' = now')]_vars

\* ----------------------------------------------------------------- C24
\* C24: a table is recorded as existing only by a create_table call that
\* succeeded; a batch for a recorded table skips provisioning; a create_table
\* call that raises records nothing, ends the flush with no row of the batch
\* handed to insert_rows_json, and leaves the rows buffered; the next batch
\* for a table that is not recorded calls create_table again.
C24_ProvisionedOnceOnSuccess ==
  /\ [](\A t \in table_schemas : create_calls[t] >= 1)
  /\ [][\A th \in Threads :
          (pc[th] = "wb_ensure" /\ pc'[th] # "wb_ensure" /\ RefRows(th) # <<>>) =>
             IF rows_ref[th].tbl \in table_schemas
             THEN /\ create_calls' = create_calls
                  /\ table_schemas' = table_schemas
                  /\ pc'[th] = "wb_insert"
             ELSE /\ create_calls'[rows_ref[th].tbl] = create_calls[rows_ref[th].tbl] + 1
                  /\ \/ /\ table_schemas' = table_schemas \cup {rows_ref[th].tbl}
                        /\ sinkRaises' = sinkRaises
                        /\ pc'[th] = "wb_insert"
                     \/ /\ table_schemas' = table_schemas
                        /\ sinkRaises' = sinkRaises + 1
                        /\ pc'[th] = LeavePc(th, TRUE)
                        /\ sent' = sent /\ inserted' = inserted
                        /\ buffer' = buffer]_vars
  /\ [][table_schemas' # table_schemas => create_calls' # create_calls]_vars

\* a table whose first create_table call raised, created by the second call,
\* and its row then inserted
C24_Witness ==
  /\ create_calls["orders"] = 2
  /\ "orders" \in table_schemas
  /\ sinkRaises = 1
  /\ Len(msgs) = 1
  /\ sent[1] = 1 /\ inserted[1] = 1

\* ----------------------------------------------------------------- C25
\* C25: every message whose callback has returned got exactly one
\* disposition: one ack or one nack, never both and never neither.
C25_ExactlyOneDisposition ==
  \A i \in MsgIds : Handled(i) => acks[i] + nacks[i] = 1

\* ----------------------------------------------------------------- C26
\* C26: whenever no thread is inside the handler or a flush, the buffered-row
\* count equals the sum of the lengths of the buffers.
C26_CountMatchesBuffers == Quiescent => buffer_count = TotalRows(buffer)

\* ----------------------------------------------------------------- C27
\* C27: (no message is delivered twice in the model) no row is in more than
\* one insert_rows_json call that returned: a row written in a cycle that
\* later failed is not written again.
C27_NoRowWrittenTwice == \A i \in MsgIds : inserted[i] <= 1

\* ----------------------------------------------------------------- C28
\* C28: the processed total never decreases, and whenever no flush is in
\* progress it equals the sum of the counts write_batch has returned.
C28_ProcessedIsReported ==
  /\ [][total_processed' >= total_processed]_vars
  /\ []((\A th \in Threads : pc[th] \notin FlushPcs) => total_processed = reported)

\* ----------------------------------------------------------------- C29
\* C29: a flush that finds no buffer returns without any effect: no sink
\* call, and the last-flush time, the count, the processed total and the
\* buffers are as before; consequently the first message ever buffered, when
\* it is delivered with nothing buffered and flush_interval_sec or more after
\* the last-flush time, is flushed by its own handler as soon as it is appended
\* and acknowledged, and the batch handed to the sink is that one row.
C29_EmptyFlushIsNoop ==
  /\ [][\A th \in Threads :
          (pc[th] = "flush_begin" /\ pc'[th] # "flush_begin" /\ buffer = <<>>) =>
             /\ pc'[th] = LeavePc(th, FALSE)
             /\ sent' = sent /\ inserted' = inserted /\ reported' = reported
             /\ create_calls' = create_calls /\ table_schemas' = table_schemas
             /\ last_flush_time' = last_flush_time
             /\ buffer_count' = buffer_count
             /\ total_processed' = total_processed
             /\ buffer' = buffer]_vars
  /\ [][\A h \in Handlers :
          (pc[h] = "policy" /\ pc'[h] # "policy"
           /\ append_seq = <<cur[h].id>>
           /\ cur[h].idle) =>
             pc'[h] = "flush_begin"]_vars
  /\ [][\A th \in Threads :
          (pc[th] = "wb_insert" /\ pc'[th] # "wb_insert" /\ Len(append_seq) = 1) =>
             \A i \in MsgIds :
                sent'[i] - sent[i] = IF i = append_seq[1] THEN 1 ELSE 0]_vars

\* ----------------------------------------------------------------- C30
\* C30: with one delivery thread and batch_size >= 1, whenever no thread is
\* inside the handler or a flush, fewer than batch_size rows are buffered.
C30_BufferBelowBatchSize == Quiescent => TotalRows(buffer) < batch_size

====
